---- MODULE Spec2Model ----
(***************************************************************************)
(* Model of scripts/analysis/meilisearch-company-network.py: one run of    *)
(* build_network(seed_query, max_depth) followed by analyze_network.       *)
(*                                                                         *)
(* Python values: None is PyNone, a number n is Num(n), a string s is      *)
(* Str(s); a key that a mapping does not hold is Absent.  A cpf is an      *)
(* integer, 0 standing for every falsy value (key absent, None, "").       *)
(* A dict is the sequence of its <<key, value>> items in insertion order.  *)
(***************************************************************************)
EXTENDS Integers, Sequences, FiniteSets, TLC

VARIABLES
    pc,                   \* position of the run
    exc,                  \* "none", or the exception that ended the run
    seed_query,           \* build_network's first argument
    max_depth,            \* build_network's second argument
    queries,              \* the requests sent to the search backend, in order
    response,             \* <<>> or <<r>>: what the backend answered
    initial_companies,    \* line 82
    i,                    \* index of the company of the loop of line 86
    j,                    \* index of the socio of the loop of line 106
    network,              \* line 72
    processed_cnpjs,      \* line 78
    socios_by_companies,  \* line 145
    companies_by_socios,  \* line 156
    companies_by_capital  \* line 168

vars == <<pc, exc, seed_query, max_depth, queries, response, initial_companies,
          i, j, network, processed_cnpjs, socios_by_companies,
          companies_by_socios, companies_by_capital>>

----------------------------------------------------------------------------
\* Bounds of the model.

\* MaxSize bounds the small answers of the backend: the number of hits plus the
\* number of socio entries they hold.  MaxWide and MaxTail bound the wide
\* answers: one company with up to MaxWide persons, up to MaxTail of them
\* entered a second time.
MaxSize == 3
MaxWide == 11
MaxTail == 1

\* Program constants.

SeedLimit == 10
TopN == 10

----------------------------------------------------------------------------
\* Python values.

PyNone == <<"None">>
Absent == <<"absent">>
Num(n) == <<"num", n>>
Str(s) == <<"str", s>>

Min(a, b) == IF a <= b THEN a ELSE b

\* d.get(key, default), v being d's value for the key or Absent
Get(v, default) == IF v = Absent THEN default ELSE v

\* x or 0, for x None or a number
OrZero(x) == IF x = PyNone \/ x = Num(0) THEN 0 ELSE x[2]

\* dicts
Keys(d) == {d[n][1] : n \in DOMAIN d}
DictGet(d, k) == d[CHOOSE n \in DOMAIN d : d[n][1] = k][2]
DictSet(d, k, v) ==
    IF k \in Keys(d)
    THEN [n \in DOMAIN d |-> IF d[n][1] = k THEN <<k, v>> ELSE d[n]]
    ELSE Append(d, <<k, v>>)

----------------------------------------------------------------------------
\* The inputs: the arguments of the call and the answers of the backend.

\* build("", 0) of the degenerate case, main's build_network(query, max_depth=1)
\* and the default depth of line 61
CALLS == {<<"", 0>>, <<"MBRAS", 1>>, <<"MBRAS", 2>>}
CNPJS == {"c1", "c2"}
CPFS == {1, 2}
NAMES == {PyNone, Str("Jo")}
CAPITALS == {Absent, PyNone, Num(5)}

Socio(cpf, nome) == [cpf |-> cpf, nome |-> nome]
Company(cnpj, capital, socios) ==
    [cnpj |-> cnpj, razao_social |-> Str("ACME"), capital_social |-> capital,
     socios |-> socios]

\* an entry without cpf, whose name is never read, or an entry of a person
SocioEntries == {Socio(0, PyNone)} \cup {Socio(c, n) : c \in CPFS, n \in NAMES}

\* The small answers: up to MaxSize hits and socio entries together.  lens
\* gives the number of socio entries of each hit, heads the <<cnpj, capital>>
\* of each hit, entries the socio entries of all the hits one after the other.
RECURSIVE Sum(_, _)
Sum(f, n) == IF n = 0 THEN 0 ELSE f[n] + Sum(f, n - 1)
Shapes ==
    UNION {{lens \in [1..k -> 0..(MaxSize - k)] : Sum(lens, k) <= MaxSize - k} :
           k \in 0..MaxSize}
SmallHits(lens, heads, entries) ==
    [n \in DOMAIN lens |->
        Company(heads[n][1], heads[n][2],
                [q \in 1..lens[n] |-> entries[Sum(lens, n - 1) + q]])]

\* The wide answers: a company with an entry without cpf and person 1 under
\* another name, then a company owned by the persons 1..n, those of tail
\* entered once more.
WideSocios(n, tail) ==
    [m \in 1..(n + Len(tail)) |->
        IF m <= n THEN Socio(m, Str("Jo")) ELSE Socio(tail[m - n], Str("Jo"))]
WideHits(n, tail) ==
    <<Company("c2", PyNone, <<Socio(0, PyNone), Socio(1, Str("Ana"))>>),
      Company("c1", Num(5), WideSocios(n, tail))>>

Response(reachable, status, json, has_hits, hits) ==
    [reachable |-> reachable, status |-> status, json |-> json,
     has_hits |-> has_hits, hits |-> hits]

\* the answers without hits: the backend unreachable, a status other than
\* 200, a payload that is not JSON, a JSON payload without "hits"
BareAnswers ==
    {Response(FALSE, 0, FALSE, FALSE, <<>>),
     Response(TRUE, 500, FALSE, FALSE, <<>>),
     Response(TRUE, 200, FALSE, FALSE, <<>>),
     Response(TRUE, 200, TRUE, FALSE, <<>>)}
\* the answer of status 200 whose payload holds the hits
HitsAnswer(hits) == Response(TRUE, 200, TRUE, TRUE, hits)

----------------------------------------------------------------------------
\* search_companies, lines 20-31: the outcome of the call on the answer r

search_companies(r) ==
    IF ~r.reachable
    THEN [raised |-> "ConnectionError", value |-> <<>>]
    ELSE IF r.status = 200
         THEN IF ~r.json
              THEN [raised |-> "JSONDecodeError", value |-> <<>>]
              ELSE [raised |-> "none",
                    value |-> IF r.has_hits THEN r.hits ELSE <<>>]
         ELSE [raised |-> "none", value |-> <<>>]

\* the request sent with search_companies' default limit of line 20
SearchRequestDefaultLimit(query, limit) ==
    [op |-> "search_companies", q |-> query, limit |-> 100]

\* the request of line 28, as search_companies builds it
SearchRequest(query, limit) ==
    [op |-> "search_companies", q |-> query, limit |-> limit]

----------------------------------------------------------------------------
\* build_network, lines 61-135

\* a network that starts from what an earlier build left in it
StaleNetwork ==
    [companies |-> <<>>, socios |-> <<>>,
     connections |-> <<[cnpj |-> "c1", cpf |-> 1]>>]

EmptyNetwork == [companies |-> <<>>, socios |-> <<>>, connections |-> <<>>]

\* the guard of line 89 lost: no company is ever skipped
AlreadyProcessedNever(cnpj, processed) == FALSE

\* line 89
AlreadyProcessed(cnpj, processed) == cnpj \in processed

\* socios_count counting only the socios that carry a cpf
NewEntityLinkedCount(company) ==
    [cnpj |-> company.cnpj,
     razao_social |-> company.razao_social,
     capital_social |-> Get(company.capital_social, Num(0)),
     socios_count |-> Len(SelectSeq(company.socios, LAMBDA x : x.cpf # 0))]

\* lines 95-103
NewEntity(company) ==
    [cnpj |-> company.cnpj,
     razao_social |-> company.razao_social,
     capital_social |-> Get(company.capital_social, Num(0)),
     socios_count |-> Len(company.socios)]

\* line 108
NoCpf(cpf) == cpf = 0

\* the socio looked up and never created
FindOnly(socios, socio) == socios

\* the socio written whether or not the network holds it already
FindOrCreateOverwrite(socios, socio) ==
    DictSet(socios, socio.cpf,
            [cpf |-> socio.cpf, nome |-> socio.nome, companies |-> <<>>])

\* lines 112-117
FindOrCreate(socios, socio) ==
    IF socio.cpf \notin Keys(socios)
    THEN DictSet(socios, socio.cpf,
                 [cpf |-> socio.cpf, nome |-> socio.nome, companies |-> <<>>])
    ELSE socios

\* lines 120-126
NewConnection(cnpj, socio) == [cnpj |-> cnpj, cpf |-> socio.cpf]

\* the connection appended only when the network does not hold it yet
AppendConnectionOnce(connections, connection) ==
    IF \E n \in DOMAIN connections : connections[n] = connection
    THEN connections
    ELSE Append(connections, connection)

\* line 120: network["connections"].append(...)
AppendConnection(connections, connection) == Append(connections, connection)

\* line 128
LinkCompany(socios, cpf, cnpj) ==
    LET p == DictGet(socios, cpf)
    IN  DictSet(socios, cpf, [p EXCEPT !.companies = Append(@, cnpj)])

----------------------------------------------------------------------------
\* analyze_network, lines 137-178

\* sorted(items, key=...) without reverse=True
SortedForward(keyed) ==
    LET n == Len(keyed)
        Pos(m) == Cardinality({k \in 1..n : keyed[k][1] < keyed[m][1]})
                  + Cardinality({k \in 1..m : keyed[k][1] = keyed[m][1]})
    IN  [p \in 1..n |-> keyed[CHOOSE m \in 1..n : Pos(m) = p][2]]

\* sorted(items, key=..., reverse=True): a stable sort, the items of equal
\* key keeping their order; keyed is the sequence of <<key, item>>
SortedReverse(keyed) ==
    LET n == Len(keyed)
        Pos(m) == Cardinality({k \in 1..n : keyed[k][1] > keyed[m][1]})
                  + Cardinality({k \in 1..m : keyed[k][1] = keyed[m][1]})
    IN  [p \in 1..n |-> keyed[CHOOSE m \in 1..n : Pos(m) = p][2]]

\* s[:n]
Take(s, n) == SubSeq(s, 1, Min(n, Len(s)))

\* line 147
PersonKey(item) == Len(item[2].companies)
\* line 158
SociosKey(item) == item[2].socios_count
\* line 170
CapitalKey(item) == OrZero(item[2].capital_social)

\* lines 145-149
RankPersons(net) ==
    Take(SortedReverse([n \in DOMAIN net.socios |->
                          <<PersonKey(net.socios[n]), net.socios[n]>>]), TopN)
\* lines 156-160
RankBySocios(net) ==
    Take(SortedReverse([n \in DOMAIN net.companies |->
                          <<SociosKey(net.companies[n]), net.companies[n]>>]), TopN)
\* lines 168-172
RankByCapital(net) ==
    Take(SortedReverse([n \in DOMAIN net.companies |->
                          <<CapitalKey(net.companies[n]), net.companies[n]>>]), TopN)

\* x[:k] raises TypeError when x is None
SliceRaises(x) == x = PyNone

\* lines 152-153: data['nome'][:40] for each item printed
PrintPersonsRaises(ranking) ==
    \E n \in DOMAIN ranking : SliceRaises(ranking[n][2].nome)
\* lines 163-165 and 175-178: data['razao_social'][:50]
PrintCompaniesRaises(ranking) ==
    \E n \in DOMAIN ranking : SliceRaises(ranking[n][2].razao_social)

----------------------------------------------------------------------------
\* The run.

Init ==
    /\ pc = "start"
    /\ exc = "none"
    /\ \E call \in CALLS : seed_query = call[1] /\ max_depth = call[2]
    /\ queries = <<>>
    /\ response = <<>>
    /\ initial_companies = <<>>
    /\ i = 0
    /\ j = 0
    /\ network = EmptyNetwork
    /\ processed_cnpjs = {}
    /\ socios_by_companies = <<>>
    /\ companies_by_socios = <<>>
    /\ companies_by_capital = <<>>

Running(at) == pc = at /\ exc = "none"

\* lines 20-31 and 82: the seed search answered by r, of at most limit hits
Answered(r) ==
    LET out == search_companies(r)
    IN  /\ Len(r.hits) <= SeedLimit
        /\ queries' = Append(queries, SearchRequest(seed_query, SeedLimit))
        /\ response' = <<r>>
        /\ exc' = out.raised
        /\ initial_companies' = out.value

\* line 82: the seed search
SearchSeed ==
    /\ Running("start")
    /\ \/ \E r \in BareAnswers : Answered(r)
       \/ \E lens \in Shapes :
           \E heads \in [DOMAIN lens -> CNPJS \X CAPITALS] :
           \E entries \in [1..Sum(lens, Len(lens)) -> SocioEntries] :
               Answered(HitsAnswer(SmallHits(lens, heads, entries)))
       \/ \E n \in TopN..MaxWide : \E k \in 0..MaxTail : \E tail \in [1..k -> 1..n] :
               Answered(HitsAnswer(WideHits(n, tail)))
    /\ pc' = "for_company"
    /\ i' = 1
    /\ UNCHANGED <<seed_query, max_depth, j, network, processed_cnpjs,
                   socios_by_companies, companies_by_socios, companies_by_capital>>

\* lines 86-90: a company whose cnpj was processed is skipped
SkipCompany ==
    /\ Running("for_company")
    /\ i <= Len(initial_companies)
    /\ AlreadyProcessed(initial_companies[i].cnpj, processed_cnpjs)
    /\ i' = i + 1
    /\ UNCHANGED <<pc, exc, seed_query, max_depth, queries, response,
                   initial_companies, j, network, processed_cnpjs,
                   socios_by_companies, companies_by_socios, companies_by_capital>>

\* lines 86-103: a new company enters the network
AddCompany ==
    /\ Running("for_company")
    /\ i <= Len(initial_companies)
    /\ LET company == initial_companies[i]
       IN  /\ ~AlreadyProcessed(company.cnpj, processed_cnpjs)
           /\ processed_cnpjs' = processed_cnpjs \cup {company.cnpj}
           /\ network' = [network EXCEPT !.companies =
                             DictSet(@, company.cnpj, NewEntity(company))]
    /\ j' = 1
    /\ pc' = "for_socio"
    /\ UNCHANGED <<exc, seed_query, max_depth, queries, response,
                   initial_companies, i, socios_by_companies,
                   companies_by_socios, companies_by_capital>>

\* lines 106-109: a socio without cpf is skipped
SkipSocio ==
    /\ Running("for_socio")
    /\ j <= Len(initial_companies[i].socios)
    /\ NoCpf(initial_companies[i].socios[j].cpf)
    /\ j' = j + 1
    /\ UNCHANGED <<pc, exc, seed_query, max_depth, queries, response,
                   initial_companies, i, network, processed_cnpjs,
                   socios_by_companies, companies_by_socios, companies_by_capital>>

\* lines 106-117: the socio is found or created
AddSocio ==
    /\ Running("for_socio")
    /\ j <= Len(initial_companies[i].socios)
    /\ ~NoCpf(initial_companies[i].socios[j].cpf)
    /\ network' = [network EXCEPT !.socios =
                      FindOrCreate(@, initial_companies[i].socios[j])]
    /\ pc' = "connect"
    /\ UNCHANGED <<exc, seed_query, max_depth, queries, response,
                   initial_companies, i, j, processed_cnpjs,
                   socios_by_companies, companies_by_socios, companies_by_capital>>

\* lines 120-126: the connection is appended
AddConnection ==
    /\ Running("connect")
    /\ network' = [network EXCEPT !.connections =
                      AppendConnection(@,
                          NewConnection(initial_companies[i].cnpj,
                                        initial_companies[i].socios[j]))]
    /\ pc' = "link"
    /\ UNCHANGED <<exc, seed_query, max_depth, queries, response,
                   initial_companies, i, j, processed_cnpjs,
                   socios_by_companies, companies_by_socios, companies_by_capital>>

\* line 128: the company is appended to the socio's list
AddLink ==
    /\ Running("link")
    /\ network' = [network EXCEPT !.socios =
                      LinkCompany(@, initial_companies[i].socios[j].cpf,
                                  initial_companies[i].cnpj)]
    /\ j' = j + 1
    /\ pc' = "for_socio"
    /\ UNCHANGED <<exc, seed_query, max_depth, queries, response,
                   initial_companies, i, processed_cnpjs,
                   socios_by_companies, companies_by_socios, companies_by_capital>>

\* line 106: the socios of the company are exhausted
EndSocios ==
    /\ Running("for_socio")
    /\ j > Len(initial_companies[i].socios)
    /\ i' = i + 1
    /\ pc' = "for_company"
    /\ UNCHANGED <<exc, seed_query, max_depth, queries, response,
                   initial_companies, j, network, processed_cnpjs,
                   socios_by_companies, companies_by_socios, companies_by_capital>>

\* lines 86 and 135: the companies are exhausted, the network is returned
ReturnNetwork ==
    /\ Running("for_company")
    /\ i > Len(initial_companies)
    /\ pc' = "built"
    /\ UNCHANGED <<exc, seed_query, max_depth, queries, response,
                   initial_companies, i, j, network, processed_cnpjs,
                   socios_by_companies, companies_by_socios, companies_by_capital>>

\* lines 145-153
AnalyzePersons ==
    /\ Running("built")
    /\ socios_by_companies' = RankPersons(network)
    /\ exc' = IF PrintPersonsRaises(RankPersons(network)) THEN "TypeError" ELSE "none"
    /\ pc' = "ranked_persons"
    /\ UNCHANGED <<seed_query, max_depth, queries, response, initial_companies,
                   i, j, network, processed_cnpjs, companies_by_socios,
                   companies_by_capital>>

\* lines 156-165
AnalyzeSocios ==
    /\ Running("ranked_persons")
    /\ companies_by_socios' = RankBySocios(network)
    /\ exc' = IF PrintCompaniesRaises(RankBySocios(network)) THEN "TypeError" ELSE "none"
    /\ pc' = "ranked_socios"
    /\ UNCHANGED <<seed_query, max_depth, queries, response, initial_companies,
                   i, j, network, processed_cnpjs, socios_by_companies,
                   companies_by_capital>>

\* lines 168-178
AnalyzeCapital ==
    /\ Running("ranked_socios")
    /\ companies_by_capital' = RankByCapital(network)
    /\ exc' = IF PrintCompaniesRaises(RankByCapital(network)) THEN "TypeError" ELSE "none"
    /\ pc' = "analyzed"
    /\ UNCHANGED <<seed_query, max_depth, queries, response, initial_companies,
                   i, j, network, processed_cnpjs, socios_by_companies,
                   companies_by_socios>>

Next ==
    \/ SearchSeed
    \/ SkipCompany
    \/ AddCompany
    \/ SkipSocio
    \/ AddSocio
    \/ AddConnection
    \/ AddLink
    \/ EndSocios
    \/ ReturnNetwork
    \/ AnalyzePersons
    \/ AnalyzeSocios
    \/ AnalyzeCapital

Spec == Init /\ [][Next]_vars

----------------------------------------------------------------------------
\* What the claims speak of, stated from the answer of the seed search.

\* build_network has returned its network (analyze_network may have run)
Returned == pc \in {"built", "ranked_persons", "ranked_socios", "analyzed"}

\* the n-th record is the first of its cnpj
IsFirst(n) == \A m \in 1..(n - 1) : initial_companies[m].cnpj # initial_companies[n].cnpj
FirstIndex(c) ==
    CHOOSE n \in DOMAIN initial_companies : initial_companies[n].cnpj = c /\ IsFirst(n)
SeedCnpjs == {initial_companies[n].cnpj : n \in DOMAIN initial_companies}

HasCpf(s) == s.cpf # 0
\* the ownership entries of the n-th record that carry a person identifier
OwnEntries(n) == SelectSeq(initial_companies[n].socios, HasCpf)

\* the ownership entries with a person identifier of the first-occurrence
\* records, in encounter order: by record, then by entry
RECURSIVE EncounterUpTo(_)
EncounterUpTo(n) ==
    IF n = 0 THEN <<>>
    ELSE EncounterUpTo(n - 1) \o
         (IF IsFirst(n)
          THEN [m \in 1..Len(OwnEntries(n)) |->
                  [cnpj |-> initial_companies[n].cnpj,
                   cpf  |-> OwnEntries(n)[m].cpf,
                   nome |-> OwnEntries(n)[m].nome]]
          ELSE <<>>)
Encounter == EncounterUpTo(Len(initial_companies))

EdgesOfCnpj(c) == SelectSeq(network.connections, LAMBDA e : e.cnpj = c)
EdgesOfCpf(p) == SelectSeq(network.connections, LAMBDA e : e.cpf = p)
EntitiesOfCnpj(c) ==
    {n \in DOMAIN network.companies : network.companies[n][2].cnpj = c}
Edge(e) == [cnpj |-> e.cnpj, cpf |-> e.cpf]
IsPrefix(s, t) == Len(s) <= Len(t) /\ SubSeq(t, 1, Len(s)) = s

\* C1 (dedup): once the network is returned, every cnpj of the seed answer has
\* exactly one entity, whose attributes are those of the first record of that
\* cnpj (capital 0 when that record has none); the later records of the cnpj
\* leave nothing: the edges of the cnpj are those of the first record's
\* entries, and the persons are those of the first-occurrence records.
C1_Dedup ==
    Returned =>
        /\ \A c \in SeedCnpjs :
            LET first == initial_companies[FirstIndex(c)]
            IN  /\ Cardinality(EntitiesOfCnpj(c)) = 1
                /\ c \in Keys(network.companies)
                /\ LET entity == DictGet(network.companies, c)
                   IN  /\ entity.cnpj = c
                       /\ entity.razao_social = first.razao_social
                       /\ entity.capital_social =
                             (IF first.capital_social = Absent THEN Num(0)
                              ELSE first.capital_social)
                       /\ entity.socios_count = Len(first.socios)
                /\ EdgesOfCnpj(c) =
                      [m \in 1..Len(OwnEntries(FirstIndex(c))) |->
                          [cnpj |-> c, cpf |-> OwnEntries(FirstIndex(c))[m].cpf]]
        /\ Keys(network.companies) = SeedCnpjs
        /\ LET enc == Encounter
           IN  /\ Keys(network.socios) = {enc[m].cpf : m \in DOMAIN enc}
               /\ Len(network.connections) = Len(enc)

\* a returned network whose seed answer repeats a cnpj with another capital and
\* with an entry of a person that no first-occurrence record names
C1_Witness ==
    /\ Returned
    /\ \E n \in DOMAIN initial_companies : \E m \in 1..(n - 1) :
        /\ initial_companies[m].cnpj = initial_companies[n].cnpj
        /\ initial_companies[m].capital_social # initial_companies[n].capital_social
        /\ \E k \in DOMAIN initial_companies[n].socios :
            /\ initial_companies[n].socios[k].cpf # 0
            /\ initial_companies[n].socios[k].cpf \notin Keys(network.socios)

\* C2 (edge count): once the network is returned, every entity has as many
\* edges as its first record has ownership entries with a person identifier,
\* its socios_count is the number of all ownership entries of that record, and
\* so socios_count >= its number of edges.
C2_EdgeCount ==
    Returned =>
        \A n \in DOMAIN network.companies :
            LET c == network.companies[n][1]
                entity == network.companies[n][2]
            IN  /\ c \in SeedCnpjs
                /\ Len(EdgesOfCnpj(c)) = Len(OwnEntries(FirstIndex(c)))
                /\ entity.socios_count = Len(initial_companies[FirstIndex(c)].socios)
                /\ entity.socios_count >= Len(EdgesOfCnpj(c))

\* a returned entity with edges and with more ownership entries than edges
C2_Witness ==
    /\ Returned
    /\ \E n \in DOMAIN network.companies :
        LET c == network.companies[n][1]
        IN  /\ Len(EdgesOfCnpj(c)) >= 1
            /\ network.companies[n][2].socios_count > Len(EdgesOfCnpj(c))

\* C3 (person merge): once the network is returned, every person's list of
\* entities is as long as the number of edges of that person (it is the
\* entities of those edges, repeated ones included), and the person's name is
\* that of the first ownership entry, in encounter order, of that identifier.
C3_PersonMerge ==
    Returned =>
        LET enc == Encounter
        IN  \A n \in DOMAIN network.socios :
            LET p == network.socios[n][1]
                person == network.socios[n][2]
                own == SelectSeq(enc, LAMBDA e : e.cpf = p)
            IN  /\ person.cpf = p
                /\ Len(person.companies) = Len(EdgesOfCpf(p))
                /\ person.companies = [m \in DOMAIN EdgesOfCpf(p) |-> EdgesOfCpf(p)[m].cnpj]
                /\ Len(own) >= 1
                /\ person.nome = own[1].nome

\* a returned person with two edges whose second entry has another name
C3_Witness ==
    /\ Returned
    /\ \E n \in DOMAIN network.socios :
        LET p == network.socios[n][1]
            enc == Encounter
            own == SelectSeq(enc, LAMBDA e : e.cpf = p)
        IN  /\ Len(EdgesOfCpf(p)) >= 2
            /\ own[2].nome # own[1].nome

\* the seed search failed: the backend unreachable, a non-success status or an
\* unparseable payload
SearchFailed(r) == ~r.reachable \/ r.status # 200 \/ ~r.json

\* C4 (graceful degradation): whenever the seed search fails (the backend is
\* unreachable, answers a non-success status or an unparseable payload),
\* nothing is raised, the result is the empty sequence, and the network
\* returned is empty.
C4_GracefulDegradation ==
    (response # <<>> /\ SearchFailed(response[1])) =>
        /\ exc = "none"
        /\ initial_companies = <<>>
        /\ Returned =>
            /\ Len(network.companies) = 0
            /\ Len(network.socios) = 0
            /\ Len(network.connections) = 0

\* the ranking is the top 10 of the items of dict by the key K
RankingOK(ranking, dict, K(_)) ==
    /\ Len(ranking) = Min(10, Len(dict))
    /\ \A n \in DOMAIN ranking : \E m \in DOMAIN dict : dict[m] = ranking[n]
    /\ \A m, n \in DOMAIN ranking : m # n => ranking[m][1] # ranking[n][1]
    /\ \A m, n \in DOMAIN ranking : m < n => K(ranking[m]) >= K(ranking[n])
    /\ \A m \in DOMAIN dict :
        (\A n \in DOMAIN ranking : ranking[n] # dict[m])
            => \A n \in DOMAIN ranking : K(dict[m]) <= K(ranking[n])
EntityListLength(item) == Len(item[2].companies)
SociosCount(item) == item[2].socios_count
CapitalOrZero(item) ==
    IF item[2].capital_social = PyNone THEN 0 ELSE item[2].capital_social[2]

\* C5 (ranking correctness): each ranking that analyze_network has computed
\* is made of distinct items of its map, in non-increasing order of its key,
\* of length min(10, size of the map), and no item left out has a key greater
\* than an item included.
C5_RankingCorrect ==
    /\ pc \in {"ranked_persons", "ranked_socios", "analyzed"} =>
        RankingOK(socios_by_companies, network.socios, EntityListLength)
    /\ pc \in {"ranked_socios", "analyzed"} =>
        RankingOK(companies_by_socios, network.companies, SociosCount)
    /\ pc = "analyzed" =>
        RankingOK(companies_by_capital, network.companies, CapitalOrZero)

\* an analysis of more than 10 persons and of an entity of null capital, where
\* the ranking of the persons is not the first 10 of the map and the rankings
\* of the entities start with another item than the map
C5_Witness ==
    /\ pc = "analyzed"
    /\ Len(network.socios) > 10
    /\ Len(socios_by_companies) = 10
    /\ socios_by_companies # SubSeq(network.socios, 1, 10)
    /\ companies_by_socios[1] # network.companies[1]
    /\ companies_by_capital[1] # network.companies[1]
    /\ \E n \in DOMAIN network.companies :
        network.companies[n][2].capital_social = PyNone

\* an empty network, nothing raised and no ranking other than empty
Degenerate ==
    /\ Len(network.companies) = 0
    /\ Len(network.socios) = 0
    /\ Len(network.connections) = 0
    /\ exc = "none"
    /\ socios_by_companies = <<>>
    /\ companies_by_socios = <<>>
    /\ companies_by_capital = <<>>

\* C6 (degenerate input), as claimed: build("", 0), or a build whose seed
\* query returns zero results, returns an empty network, and the analysis of
\* it yields three empty sequences.
C6_DegenerateAsClaimed ==
    (Returned /\ ((seed_query = "" /\ max_depth = 0) \/ initial_companies = <<>>))
        => Degenerate

\* C6 amended: a build whose seed query returns zero results, whatever its
\* arguments, returns an empty network, and the analysis of it raises nothing
\* and yields three empty sequences.
C6_ZeroResults ==
    (Returned /\ initial_companies = <<>>) => Degenerate

\* build("", 0) answered with no hit, analysed to the end
C6_Witness ==
    /\ pc = "analyzed"
    /\ exc = "none"
    /\ seed_query = ""
    /\ max_depth = 0
    /\ response # <<>>
    /\ response[1].has_hits
    /\ initial_companies = <<>>

\* C7 (referential integrity): in every state of the run, every edge of the
\* edge list has its entity identifier among the keys of the entity map and
\* its person identifier among the keys of the person map.
C7_ReferentialIntegrity ==
    \A n \in DOMAIN network.connections :
        /\ network.connections[n].cnpj \in Keys(network.companies)
        /\ network.connections[n].cpf \in Keys(network.socios)

\* during the build, right after the first edge of a new person is appended
\* and before the entity is appended to the person's list
C7_Witness ==
    /\ pc = "link"
    /\ Len(network.connections) >= 1
    /\ LET e == network.connections[Len(network.connections)]
       IN  /\ e.cpf \in Keys(network.socios)
           /\ DictGet(network.socios, e.cpf).companies = <<>>

\* C8 (analyzer totality): analyze_network raises nothing on any network that
\* build_network returns.
C8_AnalyzerTotal == Returned => exc = "none"

\* the network that the answer of the seed search determines: the entities of
\* the first-occurrence records, the persons and the edges of their entries
ExpectedCompanies ==
    LET firsts == SelectSeq([n \in DOMAIN initial_companies |-> n], IsFirst)
    IN  [k \in DOMAIN firsts |->
            LET company == initial_companies[firsts[k]]
            IN  <<company.cnpj,
                  [cnpj |-> company.cnpj,
                   razao_social |-> company.razao_social,
                   capital_social |-> (IF company.capital_social = Absent
                                       THEN Num(0) ELSE company.capital_social),
                   socios_count |-> Len(company.socios)]>>]
ExpectedSocios ==
    LET enc == Encounter
        IsNew(k) == \A m \in 1..(k - 1) : enc[m].cpf # enc[k].cpf
        firsts == SelectSeq([k \in DOMAIN enc |-> k], IsNew)
    IN  [q \in DOMAIN firsts |->
            LET e == enc[firsts[q]]
                own == SelectSeq(enc, LAMBDA x : x.cpf = e.cpf)
            IN  <<e.cpf, [cpf |-> e.cpf, nome |-> e.nome,
                          companies |-> [m \in DOMAIN own |-> own[m].cnpj]]>>]
ExpectedConnections ==
    LET enc == Encounter
    IN  [k \in DOMAIN enc |-> Edge(enc[k])]

\* C9 (single hop): for every depth, the build sends the backend exactly one
\* request, the seed text search with result bound 10, and none before the
\* search; the network returned is the one the answer alone determines.
C9_SingleHop ==
    /\ pc = "start" => queries = <<>>
    /\ pc # "start" =>
        queries = <<[op |-> "search_companies", q |-> seed_query, limit |-> 10]>>
    /\ Returned =>
        /\ network.companies = ExpectedCompanies
        /\ network.socios = ExpectedSocios
        /\ network.connections = ExpectedConnections

\* a network with edges, returned by a build of depth 2
C9_Witness ==
    /\ Returned
    /\ max_depth = 2
    /\ Len(queries) = 1
    /\ Len(network.connections) >= 2
    /\ Len(network.companies) >= 2

\* C10 (append-only edge log): every step of the run leaves the edge list a
\* prefix of what it becomes, and the list returned is the ownership entries
\* with a person identifier in encounter order, by record and then by entry,
\* one edge each, the repeated (entity, person) pairs included.
C10_AppendOnlyLog ==
    [][/\ IsPrefix(network.connections, network.connections')
       /\ Returned' => network.connections' = ExpectedConnections']_vars

\* a returned edge list that holds the same (entity, person) pair twice
C10_Witness ==
    /\ Returned
    /\ \E m, n \in DOMAIN network.connections :
        m < n /\ network.connections[m] = network.connections[n]

====
